---- MODULE Spec2Model ----
(***************************************************************************)
(* Model of the GalilStage serial session (galilstage/commands.py, with    *)
(* the variants of galilstage/galilstage.py): connection lifecycle, the    *)
(* send_command transaction, the axis command vocabulary, the chunking     *)
(* dispatcher command() and configuration application command_config().    *)
(*                                                                         *)
(* A Python str is a sequence of one-character strings, a bytes object a   *)
(* sequence of integers.  Every method body is translated to the sequence  *)
(* of primitive steps it performs (a "plan"); the step actions execute a   *)
(* plan one primitive at a time and record what reaches the serial link.   *)
(***************************************************************************)
EXTENDS Integers, Sequences, FiniteSets, TLC

VARIABLES
    port,      \* self.port: "None" or the device name
    ser,       \* self.ser: "None", "open" (Serial, is_open) or "closed" (Serial, not is_open)
    config,    \* self.config
    request,   \* the logical command the caller hands to command()
    pc,        \* per caller: "idle" (no call yet), "running", "done"
    call,      \* per caller: the call in progress or last made
    todo,      \* per caller: the primitive steps the call still has to perform
    vals,      \* per caller: the values the call holds (innermost last)
    result,    \* per caller: what the last call returned
    err,       \* per caller: the exception the last call raised, or "none"
    trace,     \* link and timing events since the session was last quiescent
    serials,   \* the Serial objects: how many have their port open, and how
               \* often close() was called on the one self.ser refers to
    script     \* the monitoring script: where it is and what it holds

vars ==
    <<port, ser, config, request, pc, call, todo, vals, result, err, trace, serials,
      script>>

----------------------------------------------------------------------------
(* Bounds of the model *)

\* longest logical command, in segments, handed to command()
MaxSegs == 4

\* most link events recorded while calls of two callers overlap
MaxTrace == 5

----------------------------------------------------------------------------
(* Python str and bytes *)

\* str.strip() with no argument removes these from both ends
Whitespace == {" ", "\t", "\n", "\r"}

RECURSIVE LStrip(_)
LStrip(s) ==
    IF s # <<>> /\ Head(s) \in Whitespace THEN LStrip(Tail(s)) ELSE s

RECURSIVE RStrip(_)
RStrip(s) ==
    IF s # <<>> /\ s[Len(s)] \in Whitespace
    THEN RStrip(SubSeq(s, 1, Len(s) - 1))
    ELSE s

Strip(s) == RStrip(LStrip(s))

\* str.split(sep) for a one-character sep: always at least one piece
RECURSIVE Split(_, _)
Split(s, sep) ==
    IF \A i \in 1..Len(s) : s[i] # sep
    THEN <<s>>
    ELSE LET k == CHOOSE i \in 1..Len(s) :
                      s[i] = sep /\ \A j \in 1..(i - 1) : s[j] # sep
         IN  <<SubSeq(s, 1, k - 1)>> \o Split(SubSeq(s, k + 1, Len(s)), sep)

\* sep.join(parts)
RECURSIVE Join(_, _)
Join(parts, sep) ==
    IF parts = <<>> THEN <<>>
    ELSE IF Len(parts) = 1 THEN parts[1]
    ELSE parts[1] \o <<sep>> \o Join(Tail(parts), sep)

\* str.split() with no argument: the maximal runs of non-whitespace
RECURSIVE SplitWS(_)
SplitWS(s) ==
    LET t == LStrip(s) IN
    IF t = <<>> THEN <<>>
    ELSE IF \A i \in 1..Len(t) : t[i] \notin Whitespace
    THEN <<t>>
    ELSE LET k == CHOOSE i \in 1..Len(t) :
                      t[i] \in Whitespace /\ \A j \in 1..(i - 1) : t[j] \notin Whitespace
         IN  <<SubSeq(t, 1, k - 1)>> \o SplitWS(SubSeq(t, k + 1, Len(t)))

Digit(d) == <<"0", "1", "2", "3", "4", "5", "6", "7", "8", "9">>[d + 1]

\* str(n) of a Python int, as f"{n}" formats it
RECURSIVE IntToStr(_)
IntToStr(n) ==
    IF n < 0 THEN <<"-">> \o IntToStr(0 - n)
    ELSE IF n < 10 THEN <<Digit(n)>>
    ELSE IntToStr(n \div 10) \o <<Digit(n % 10)>>

\* code points of the characters the session puts on the link
Ord ==
    (" " :> 32) @@ ("\t" :> 9) @@ ("\n" :> 10) @@ ("\r" :> 13) @@
    ("," :> 44) @@ ("-" :> 45) @@ (";" :> 59) @@ ("=" :> 61) @@
    ("?" :> 63) @@ (":" :> 58) @@ ("_" :> 95) @@ ("." :> 46) @@
    ("0" :> 48) @@ ("1" :> 49) @@ ("2" :> 50) @@ ("3" :> 51) @@ ("4" :> 52) @@
    ("5" :> 53) @@ ("6" :> 54) @@ ("7" :> 55) @@ ("8" :> 56) @@ ("9" :> 57) @@
    ("A" :> 65) @@ ("B" :> 66) @@ ("C" :> 67) @@ ("D" :> 68) @@ ("E" :> 69) @@
    ("F" :> 70) @@ ("G" :> 71) @@ ("H" :> 72) @@ ("I" :> 73) @@ ("J" :> 74) @@
    ("M" :> 77) @@ ("N" :> 78) @@ ("O" :> 79) @@ ("P" :> 80) @@ ("R" :> 82) @@
    ("S" :> 83) @@ ("T" :> 84) @@ ("V" :> 86) @@ ("Z" :> 90) @@
    ("a" :> 97) @@ ("b" :> 98) @@ ("c" :> 99) @@ ("d" :> 100) @@ ("e" :> 101)

\* str.encode(): UTF-8, one byte per character for the characters above
Encode(s) == [i \in 1..Len(s) |-> Ord[s[i]]]

ValidByte(b) == \E ch \in DOMAIN Ord : Ord[ch] = b

Chr(b) == CHOOSE ch \in DOMAIN Ord : Ord[ch] = b

\* bytes.decode() raises UnicodeDecodeError unless every byte decodes
Decodable(bs) == \A i \in 1..Len(bs) : ValidByte(bs[i])

\* bytes.decode() of decodable bytes
Decode(bs) == [i \in 1..Len(bs) |-> Chr(bs[i])]

\* bytes.decode(errors='ignore'): undecodable bytes are dropped
DecodeIgnore(bs) == Decode(SelectSeq(bs, ValidByte))

----------------------------------------------------------------------------
(* Values and primitive steps *)

Callers == {1, 2}

\* the port argument's default, '/dev/ttyUSB0'
DefaultPort == "/dev/ttyUSB0"

\* ser.read(1000)
ReadMax == 1000

\* RuntimeError("Not connected."), the error of sending with no open connection
NotConnected == "RuntimeError: Not connected."

NoResult == [kind |-> "none", text |-> <<>>]

\* a primitive step: what it does, the bytes or text it carries, the
\* exception it raises
Prim(o, d, t) == <<o, d, t, "none">>

OpOf(p) == p[1]

DataOf(p) == p[2]

TextOf(p) == p[3]

ExcOf(p) == p[4]

\* if not self.ser or not self.ser.is_open: raise RuntimeError("Not connected.")
PCheck == Prim("check", <<>>, <<>>)
\* self.ser.write(bytes)
PSerWrite(bs) == Prim("ser_write", bs, <<>>)
\* self.ser.read(1000).decode().strip()
PSerRead == Prim("ser_read", <<>>, <<>>)
\* self.ser.read(1000).decode(errors='ignore').strip()
PSerReadIgnore == Prim("ser_read_ignore", <<>>, <<>>)
\* time.sleep(d)
PSleep(d) == Prim("sleep", <<d>>, <<>>)
\* self.write(text, verbose=...)
PWrite(t) == Prim("write", <<>>, t)
\* self.read()
PRead == Prim("read", <<>>, <<>>)
\* self.log.debug('Read: %s' % retmsg)
PLog == Prim("log", <<>>, <<>>)
\* a string literal as the value
PConst(t) == Prim("const", <<>>, t)
\* an expression statement: the value of the call is discarded
PPop == Prim("pop", <<>>, <<>>)
\* retmsg += <value of the second call>
PConcat == Prim("concat", <<>>, <<>>)
\* return <value>
PReturnTop == Prim("return", <<>>, <<>>)
\* return True
PReturnTrue == Prim("return_true", <<>>, <<>>)
\* raise <exception>
PRaise(e) == <<"raise", <<>>, <<>>, e>>

----------------------------------------------------------------------------
(* send_command and the axis command vocabulary (commands.py) *)

\* send_command without its guard
send_command_unguarded(cmd) ==
    <<PSerWrite(Encode(Strip(cmd) \o <<"\r">>)), PSerRead>>

send_command(cmd) ==
    <<PCheck, PSerWrite(Encode(Strip(cmd) \o <<"\r">>)), PSerRead>>

move_absolute(axis, pos) ==
    send_command(<<"P", "A", " ", axis, "=">> \o IntToStr(pos)
                 \o <<";", "B", "G", " ", axis>>)
    \o <<PReturnTop>>

move_relative(axis, delta) ==
    send_command(<<"P", "R", " ", axis, "=">> \o IntToStr(delta)
                 \o <<";", "B", "G", " ", axis>>)
    \o <<PReturnTop>>

home_axis(axis) == send_command(<<"H", "M", " ", axis>>) \o <<PReturnTop>>

\* axis "None" is the default argument: stop all
stop(axis) ==
    send_command(IF axis = "None" THEN <<"S", "T">> ELSE <<"S", "T", " ", axis>>)
    \o <<PReturnTop>>

get_position(axis) == send_command(<<"T", "P", " ", axis>>) \o <<PReturnTop>>

enable_axis(axis) == send_command(<<"S", "H", axis>>) \o <<PReturnTop>>

disable_axis(axis) == send_command(<<"M", "O", axis>>) \o <<PReturnTop>>

set_gearing(lead, follow) ==
    send_command(<<"G", "A", " ", lead, ",", follow>>) \o <<PReturnTop>>

\* ",".join(str(r) for r in ratios)
set_gearing_ratio(ratios) ==
    LET args == Join([i \in 1..Len(ratios) |-> IntToStr(ratios[i])], ",")
    IN  send_command(<<"G", "R", " ">> \o args) \o <<PReturnTop>>

jog_axis(axis, speed) ==
    send_command(<<"J", "G", axis, "=">> \o IntToStr(speed)) \o <<PPop>>
    \o send_command(<<"B", "G", axis>>) \o <<PReturnTop>>

query_status(code) == send_command(<<"M", "G", " ">> \o code) \o <<PReturnTop>>

change_gain(axis, gain) ==
    send_command(<<"A", "G", axis, "=">> \o IntToStr(gain)) \o <<PReturnTop>>

query_param(code) == send_command(<<"M", "G", " ">> \o code) \o <<PReturnTop>>

\* hasattr(self, 'config') holds of every constructed session
initialize_axis(axis, volts) ==
    send_command(<<"B", "Z", axis, " ", "=", " ">> \o IntToStr(volts))
    \o <<PReturnTop>>

----------------------------------------------------------------------------
(* The controller's side of the link *)

\* what a read may bring: ":" (accepted), "\r\n?" (a fault reported by the
\* controller) and a ":" preceded by a byte that is not valid UTF-8
RespSet == { <<58>>, <<13, 10, 63>>, <<255, 58>> }

\* what a read may bring after an MG query besides: a number and the ":"
\* that ends the answer ("-1.0000\r\n:", "0.0000\r\n:", "1000.0000\r\n:")
NumberSet ==
    { <<45, 49, 46, 48, 48, 48, 48, 13, 10, 58>>,
      <<48, 46, 48, 48, 48, 48, 13, 10, 58>>,
      <<49, 48, 48, 48, 46, 48, 48, 48, 48, 13, 10, 58>> }

\* the frame is an MG query
IsQuery(frame) == Len(frame) >= 3 /\ SubSeq(frame, 1, 3) = <<77, 71, 32>>

\* what the controller may answer to the frame written last
Answers(events) ==
    IF /\ events # <<>>
       /\ events[Len(events)].op = "write"
       /\ IsQuery(events[Len(events)].data)
    THEN RespSet \cup NumberSet
    ELSE RespSet

\* ser.read(n) returns at most n bytes
Received(bs) == SubSeq(bs, 1, IF Len(bs) < ReadMax THEN Len(bs) ELSE ReadMax)

Event(c, o, d) == [c |-> c, op |-> o, data |-> d]

----------------------------------------------------------------------------
(* Executing a call *)

Running(c) == pc[c] = "running" /\ todo[c] # <<>>

Quiet(c) == \A d \in Callers \ {c} : pc[d] # "running"

\* the steps of a plan that put an event on record
LinkSteps(plan) ==
    Cardinality({ i \in 1..Len(plan) :
        OpOf(plan[i]) \in {"ser_write", "ser_read", "ser_read_ignore",
                            "write", "read", "sleep", "log"} })

\* a call of method `name` with arguments `args` starts executing `plan`;
\* while another caller's call is in progress the record of events goes on,
\* up to MaxTrace events
Begin(c, name, args, plan) ==
    /\ pc[c] # "running"
    /\ Quiet(c) \/ Len(trace) + LinkSteps(plan) <= MaxTrace
    /\ pc' = [pc EXCEPT ![c] = "running"]
    /\ call' = [call EXCEPT ![c] = [name |-> name, args |-> args, open |-> ser = "open"]]
    /\ todo' = [todo EXCEPT ![c] = plan]
    /\ vals' = [vals EXCEPT ![c] = <<>>]
    /\ result' = [result EXCEPT ![c] = NoResult]
    /\ err' = [err EXCEPT ![c] = "none"]
    /\ trace' = IF Quiet(c) THEN <<>> ELSE trace
    /\ UNCHANGED <<port, ser, serials, config, request, script>>

\* the call moves on to its next primitive, holding the values vs
Continue(c, vs) ==
    /\ todo' = [todo EXCEPT ![c] = Tail(@)]
    /\ vals' = [vals EXCEPT ![c] = vs]
    /\ UNCHANGED <<pc, result, err>>

\* the call ends by raising e
Raise(c, e) ==
    /\ pc' = [pc EXCEPT ![c] = "done"]
    /\ err' = [err EXCEPT ![c] = e]
    /\ todo' = [todo EXCEPT ![c] = <<>>]
    /\ vals' = [vals EXCEPT ![c] = <<>>]
    /\ result' = [result EXCEPT ![c] = NoResult]

\* the call ends by returning r
Return(c, r) ==
    /\ pc' = [pc EXCEPT ![c] = "done"]
    /\ result' = [result EXCEPT ![c] = r]
    /\ todo' = [todo EXCEPT ![c] = <<>>]
    /\ vals' = [vals EXCEPT ![c] = <<>>]
    /\ UNCHANGED err

Push(vs, v) == Append(vs, v)

Top(vs) == vs[Len(vs)]

Drop(vs) == SubSeq(vs, 1, Len(vs) - 1)

\* send_command's guard
Check(c) ==
    /\ Running(c) /\ OpOf(Head(todo[c])) = "check"
    /\ IF ser = "None" \/ ser # "open"
       THEN Raise(c, NotConnected)
       ELSE Continue(c, vals[c])
    /\ UNCHANGED <<port, ser, serials, config, request, script, call, trace>>

\* Serial.write: the bytes go out on an open port
SerWrite(c) ==
    /\ Running(c) /\ OpOf(Head(todo[c])) = "ser_write"
    /\ IF ser = "None"
       THEN Raise(c, "AttributeError") /\ UNCHANGED trace
       ELSE IF ser # "open"
       THEN Raise(c, "PortNotOpenError") /\ UNCHANGED trace
       ELSE /\ Continue(c, vals[c])
            /\ trace' = Append(trace, Event(c, "write", DataOf(Head(todo[c]))))
    /\ UNCHANGED <<port, ser, serials, config, request, script, call>>

\* Serial.read(1000), then .decode() or .decode(errors='ignore'), then .strip()
SerRead(c) ==
    /\ Running(c) /\ OpOf(Head(todo[c])) \in {"ser_read", "ser_read_ignore"}
    /\ IF ser = "None"
       THEN Raise(c, "AttributeError") /\ UNCHANGED trace
       ELSE IF ser # "open"
       THEN Raise(c, "PortNotOpenError") /\ UNCHANGED trace
       ELSE \E bs \in Answers(trace) :
              LET got == Received(bs) IN
              /\ trace' = Append(trace, Event(c, "read", got))
              /\ IF OpOf(Head(todo[c])) = "ser_read_ignore"
                 THEN Continue(c, Push(vals[c], Strip(DecodeIgnore(got))))
                 ELSE IF Decodable(got)
                 THEN Continue(c, Push(vals[c], Strip(Decode(got))))
                 ELSE Raise(c, "UnicodeDecodeError")
    /\ UNCHANGED <<port, ser, serials, config, request, script, call>>

\* time.sleep
Sleep(c) ==
    /\ Running(c) /\ OpOf(Head(todo[c])) = "sleep"
    /\ Continue(c, vals[c])
    /\ trace' = Append(trace, Event(c, "sleep", DataOf(Head(todo[c]))))
    /\ UNCHANGED <<port, ser, serials, config, request, script, call>>

\* the value of a call that is not used
Pop(c) ==
    /\ Running(c) /\ OpOf(Head(todo[c])) = "pop"
    /\ Continue(c, Drop(vals[c]))
    /\ UNCHANGED <<port, ser, serials, config, request, script, call, trace>>

ReturnTop(c) ==
    /\ Running(c) /\ OpOf(Head(todo[c])) = "return"
    /\ Return(c, [kind |-> "text", text |-> Top(vals[c])])
    /\ UNCHANGED <<port, ser, serials, config, request, script, call, trace>>

ReturnTrue(c) ==
    /\ Running(c) /\ OpOf(Head(todo[c])) = "return_true"
    /\ Return(c, [kind |-> "bool", text |-> <<>>])
    /\ UNCHANGED <<port, ser, serials, config, request, script, call, trace>>

RaiseStep(c) ==
    /\ Running(c) /\ OpOf(Head(todo[c])) = "raise"
    /\ Raise(c, ExcOf(Head(todo[c])))
    /\ UNCHANGED <<port, ser, serials, config, request, script, call, trace>>

----------------------------------------------------------------------------
(* Connection lifecycle *)

\* connect() constructing a new Serial whatever self.ser refers to
connect_always_opens ==
    /\ \A c \in Callers : pc[c] # "running"
    /\ ser' = IF port = "None" THEN "closed" ELSE "open"
    /\ serials' = [open |-> serials.open + (IF port = "None" THEN 0 ELSE 1),
                   closes |-> 0]
    /\ UNCHANGED <<port, config, request, script, pc, call, todo, vals, result, err, trace>>

\* serial.Serial(port, ...) opens the port at once unless port is None; the
\* object self.ser referred to before is dropped as it is
connect ==
    /\ \A c \in Callers : pc[c] # "running"
    /\ IF ser # "None" /\ ser = "open"
       THEN UNCHANGED <<ser, serials>>
       ELSE /\ ser' = IF port = "None" THEN "closed" ELSE "open"
            /\ serials' = [open |-> serials.open + (IF port = "None" THEN 0 ELSE 1),
                           closes |-> 0]
    /\ UNCHANGED <<port, config, request, script, pc, call, todo, vals, result, err, trace>>

\* disconnect() that closes the port and keeps referring to the handle
disconnect_keeps_handle ==
    /\ \A c \in Callers : pc[c] # "running"
    /\ IF ser # "None"
       THEN /\ ser' = "closed"
            /\ serials' = [open |-> serials.open - (IF ser = "open" THEN 1 ELSE 0),
                           closes |-> serials.closes + 1]
       ELSE UNCHANGED <<ser, serials>>
    /\ UNCHANGED <<port, config, request, script, pc, call, todo, vals, result, err, trace>>

\* Serial.close() closes the port if it is open; the handle is then dropped
disconnect ==
    /\ \A c \in Callers : pc[c] # "running"
    /\ IF ser # "None"
       THEN /\ ser' = "None"
            /\ serials' = [open |-> serials.open - (IF ser = "open" THEN 1 ELSE 0),
                           closes |-> 0]
       ELSE UNCHANGED <<ser, serials>>
    /\ UNCHANGED <<port, config, request, script, pc, call, todo, vals, result, err, trace>>

----------------------------------------------------------------------------
(* The session's configuration: the mapping handed to __init__ *)

GalilKeys ==
    {"confcomm", "initcommA", "initcommB", "initcommC", "initcommD", "indexcomm",
     "maxspeed", "linaxis", "angaxis", "waittime", "verbose"}

\* values of the keys a configuration leaves out (never read)
NoValues ==
    [confcomm |-> <<>>, initcommA |-> <<>>, initcommB |-> <<>>, initcommC |-> <<>>,
     initcommD |-> <<>>, indexcomm |-> <<>>, maxspeed |-> 0, linaxis |-> <<>>,
     angaxis |-> <<>>, waittime |-> 0, verbose |-> FALSE]

\* config=None
ConfigNone == [kind |-> "None", galil |-> FALSE, keys |-> {}, val |-> NoValues]

\* a mapping with no 'galil' section
ConfigNoGalil == [kind |-> "dict", galil |-> FALSE, keys |-> {}, val |-> NoValues]

\* a mapping whose 'galil' section holds the keys `keys` with the values `val`
ConfigGalil(keys, val) == [kind |-> "dict", galil |-> TRUE, keys |-> keys, val |-> val]

\* key in galil_cfg
Has(key) == key \in config.keys

\* galil_cfg.get(key, default)
Get(key, default) == IF Has(key) THEN config.val[key] ELSE default

----------------------------------------------------------------------------
(* The chunking dispatcher command() (commands.py) *)

\* "Unable to send command, no open connection"
NoConnectionMessage ==
    <<
       "U", "n", "a", "b", "l", "e", " ", "t", "o", " ", "s", "e",
       "n", "d", " ", "c", "o", "m", "m", "a", "n", "d", ",", " ",
       "n", "o", " ", "o", "p", "e", "n", " ", "c", "o", "n", "n",
       "e", "c", "t", "i", "o", "n"
    >>

\* command() whose guard looks at the connection and answers with the message
RECURSIVE command_guard_on_connection(_)
command_guard_on_connection(cmd) ==
    IF port = "None" \/ ser # "open"
    THEN <<PConst(NoConnectionMessage)>>
    ELSE LET comsplit == Split(cmd, ";") IN
         IF Len(comsplit) > 3
         THEN command_guard_on_connection(Join(SubSeq(comsplit, 1, 3), ";"))
              \o <<PSleep(3 * config.val.waittime)>>
              \o command_guard_on_connection(Join(SubSeq(comsplit, 2, Len(comsplit)), ";"))
              \o <<PConcat>>
         ELSE <<PWrite(cmd \o <<"\n", "\r">>), PSleep(config.val.waittime), PRead>>
              \o (IF config.val.verbose THEN <<PLog>> ELSE <<>>)

\* command() recursing on the segments after the chunk it has sent
RECURSIVE command_disjoint_chunks(_)
command_disjoint_chunks(cmd) ==
    IF port = "None"
    THEN <<PConst(NoConnectionMessage)>>
    ELSE LET comsplit == Split(cmd, ";") IN
         IF Len(comsplit) > 3
         THEN command_disjoint_chunks(Join(SubSeq(comsplit, 1, 3), ";"))
              \o <<PSleep(3 * config.val.waittime)>>
              \o command_disjoint_chunks(Join(SubSeq(comsplit, 4, Len(comsplit)), ";"))
              \o <<PConcat>>
         ELSE <<PWrite(cmd \o <<"\n", "\r">>), PSleep(config.val.waittime), PRead>>
              \o (IF config.val.verbose THEN <<PLog>> ELSE <<>>)

\* command() reading right after the write
RECURSIVE command_no_wait(_)
command_no_wait(cmd) ==
    IF port = "None"
    THEN <<PConst(NoConnectionMessage)>>
    ELSE LET comsplit == Split(cmd, ";") IN
         IF Len(comsplit) > 3
         THEN command_no_wait(Join(SubSeq(comsplit, 1, 3), ";"))
              \o <<PSleep(3 * config.val.waittime)>>
              \o command_no_wait(Join(SubSeq(comsplit, 2, Len(comsplit)), ";"))
              \o <<PConcat>>
         ELSE <<PWrite(cmd \o <<"\n", "\r">>), PRead>>
              \o (IF config.val.verbose THEN <<PLog>> ELSE <<>>)

\* command() pausing for waittime, not three times waittime, between chunks
RECURSIVE command_short_pause(_)
command_short_pause(cmd) ==
    IF port = "None"
    THEN <<PConst(NoConnectionMessage)>>
    ELSE LET comsplit == Split(cmd, ";") IN
         IF Len(comsplit) > 3
         THEN command_short_pause(Join(SubSeq(comsplit, 1, 3), ";"))
              \o <<PSleep(config.val.waittime)>>
              \o command_short_pause(Join(SubSeq(comsplit, 2, Len(comsplit)), ";"))
              \o <<PConcat>>
         ELSE <<PWrite(cmd \o <<"\n", "\r">>), PSleep(config.val.waittime), PRead>>
              \o (IF config.val.verbose THEN <<PLog>> ELSE <<>>)

\* command() returning the response of its second call instead of adding it
RECURSIVE command_returns_last_response(_)
command_returns_last_response(cmd) ==
    IF port = "None"
    THEN <<PConst(NoConnectionMessage)>>
    ELSE LET comsplit == Split(cmd, ";") IN
         IF Len(comsplit) > 3
         THEN command_returns_last_response(Join(SubSeq(comsplit, 1, 3), ";"))
              \o <<PSleep(3 * config.val.waittime)>>
              \o command_returns_last_response(Join(SubSeq(comsplit, 2, Len(comsplit)), ";"))
         ELSE <<PWrite(cmd \o <<"\n", "\r">>), PSleep(config.val.waittime), PRead>>
              \o (IF config.val.verbose THEN <<PLog>> ELSE <<>>)

\* command(self, command), for a configuration that holds waittime and verbose
RECURSIVE command(_)
command(cmd) ==
    IF port = "None"
    THEN <<PConst(NoConnectionMessage)>>
    ELSE LET comsplit == Split(cmd, ";") IN
         IF Len(comsplit) > 3
         THEN command(Join(SubSeq(comsplit, 1, 3), ";"))
              \o <<PSleep(3 * config.val.waittime)>>
              \o command(Join(SubSeq(comsplit, 2, Len(comsplit)), ";"))
              \o <<PConcat>>
         ELSE <<PWrite(cmd \o <<"\n", "\r">>), PSleep(config.val.waittime), PRead>>
              \o (IF config.val.verbose THEN <<PLog>> ELSE <<>>)

\* self.write: the text goes out on the open connection, else NotConnected
Write(c) ==
    /\ Running(c) /\ OpOf(Head(todo[c])) = "write"
    /\ IF ser # "open"
       THEN Raise(c, NotConnected) /\ UNCHANGED trace
       ELSE /\ Continue(c, vals[c])
            /\ trace' = Append(trace, Event(c, "write", Encode(TextOf(Head(todo[c])))))
    /\ UNCHANGED <<port, ser, serials, config, request, script, call>>

\* self.read: one bounded read, decoded dropping undecodable bytes, trimmed
Read(c) ==
    /\ Running(c) /\ OpOf(Head(todo[c])) = "read"
    /\ IF ser # "open"
       THEN Raise(c, NotConnected) /\ UNCHANGED trace
       ELSE \E bs \in RespSet :
              LET got == Received(bs) IN
              /\ trace' = Append(trace, Event(c, "read", got))
              /\ Continue(c, Push(vals[c], Strip(DecodeIgnore(got))))
    /\ UNCHANGED <<port, ser, serials, config, request, script, call>>

\* self.log.debug: the response is logged
Log(c) ==
    /\ Running(c) /\ OpOf(Head(todo[c])) = "log"
    /\ Continue(c, vals[c])
    /\ trace' = Append(trace, Event(c, "log", Encode(Top(vals[c]))))
    /\ UNCHANGED <<port, ser, serials, config, request, script, call>>

\* a string literal becomes the value
Const(c) ==
    /\ Running(c) /\ OpOf(Head(todo[c])) = "const"
    /\ Continue(c, Push(vals[c], TextOf(Head(todo[c]))))
    /\ UNCHANGED <<port, ser, serials, config, request, script, call, trace>>

\* retmsg += value: the two innermost values become their concatenation
Concat(c) ==
    /\ Running(c) /\ OpOf(Head(todo[c])) = "concat"
    /\ Continue(c, Push(Drop(Drop(vals[c])), Top(Drop(vals[c])) \o Top(vals[c])))
    /\ UNCHANGED <<port, ser, serials, config, request, script, call, trace>>

----------------------------------------------------------------------------
(* Configuration application command_config() (commands.py) *)

\* RuntimeError("No Galil config loaded. Run load_config() first.")
NoConfigLoaded == "RuntimeError: No Galil config loaded."

\* f'initcomm{axis}'
InitKey(axis) ==
    CASE axis = "A" -> "initcommA"
      [] axis = "B" -> "initcommB"
      [] axis = "C" -> "initcommC"
      [] axis = "D" -> "initcommD"

\* a call whose value is not used
Discarded(plan) == plan \o <<PPop>>

\* for a in axes: comm += f"SP{a}={maxspeed};"
RECURSIVE SpeedSegments(_, _)
SpeedSegments(axes, maxspeed) ==
    IF axes = <<>> THEN <<>>
    ELSE <<"S", "P">> \o Head(axes) \o <<"=">> \o IntToStr(maxspeed) \o <<";">>
         \o SpeedSegments(Tail(axes), maxspeed)

\* 1. the global confcomm, sent stripped when it is not blank
ConfcommStep ==
    LET confcomm == Strip(Get("confcomm", <<>>))
    IN  IF confcomm # <<>> THEN Discarded(send_command(confcomm)) ELSE <<>>

\* 2. the init command of one axis
InitcommStep(axis) ==
    LET key == InitKey(axis)
    IN  IF Has(key) /\ Strip(config.val[key]) # <<>>
        THEN Discarded(send_command(Strip(config.val[key])))
        ELSE <<>>

\* 3. the index command, handed to send_command as it is configured
IndexcommStep ==
    IF Has("indexcomm") /\ Strip(config.val.indexcomm) # <<>>
    THEN Discarded(send_command(config.val.indexcomm))
    ELSE <<>>

\* the speed command sent with its last ';' left on
MaxspeedStep_keeps_separator ==
    IF Has("maxspeed")
    THEN LET maxspeed == config.val.maxspeed
             comm == SpeedSegments(SplitWS(Get("linaxis", <<>>)), maxspeed)
                     \o SpeedSegments(SplitWS(Get("angaxis", <<>>)), maxspeed)
         IN  IF comm # <<>> THEN Discarded(send_command(comm)) ELSE <<>>
    ELSE <<>>

\* 4. the speed of every listed axis, as one command without the last ';'
MaxspeedStep ==
    IF Has("maxspeed")
    THEN LET maxspeed == config.val.maxspeed
             comm == SpeedSegments(SplitWS(Get("linaxis", <<>>)), maxspeed)
                     \o SpeedSegments(SplitWS(Get("angaxis", <<>>)), maxspeed)
         IN  IF comm # <<>>
             THEN Discarded(send_command(SubSeq(comm, 1, Len(comm) - 1)))
             ELSE <<>>
    ELSE <<>>

\* command_config giving up when there is no confcomm to send
command_config_needs_confcomm ==
    IF config.kind = "None"
    THEN <<PRaise("TypeError")>>
    ELSE IF ~config.galil
    THEN <<PRaise(NoConfigLoaded)>>
    ELSE IF ConfcommStep = <<>>
    THEN <<PReturnTrue>>
    ELSE ConfcommStep
         \o InitcommStep("A") \o InitcommStep("B")
         \o InitcommStep("C") \o InitcommStep("D")
         \o IndexcommStep
         \o MaxspeedStep
         \o <<PReturnTrue>>

command_config ==
    IF config.kind = "None"
    THEN <<PRaise("TypeError")>>
    ELSE IF ~config.galil
    THEN <<PRaise(NoConfigLoaded)>>
    ELSE ConfcommStep
         \o InitcommStep("A") \o InitcommStep("B")
         \o InitcommStep("C") \o InitcommStep("D")
         \o IndexcommStep
         \o MaxspeedStep
         \o <<PReturnTrue>>

----------------------------------------------------------------------------
(* The session after construction *)

\* the caller of the single-threaded session
Main == CHOOSE c \in Callers : \A d \in Callers : c <= d

NoCall == [name |-> "none", args |-> <<>>, open |-> FALSE]

\* no monitoring script is running
NoScript ==
    [status |-> "off", stage |-> "none", line |-> 0,
     grb |-> <<0, 1>>, velAText |-> <<>>, velA |-> <<0, 1>>, velB |-> <<0, 1>>,
     ratioSeen |-> FALSE, started |-> FALSE, stopped |-> FALSE]

InitSession ==
    /\ script = NoScript
    /\ port \in {"None", DefaultPort}
    /\ ser = "None"
    /\ pc = [c \in Callers |-> "idle"]
    /\ call = [c \in Callers |-> NoCall]
    /\ todo = [c \in Callers |-> <<>>]
    /\ vals = [c \in Callers |-> <<>>]
    /\ result = [c \in Callers |-> NoResult]
    /\ err = [c \in Callers |-> "none"]
    /\ trace = <<>>
    /\ serials = [open |-> 0, closes |-> 0]

----------------------------------------------------------------------------
(* Calls of the axis command vocabulary *)

Axes == {"A", "B"}

Numbers == {-15000, 0, 1000}

Codes == { <<"_", "G", "R", "B">>, <<"_", "T", "V", "A">> }

Ratios == { <<>>, <<1>>, <<-1, 1>> }

\* initialize_axis(self, axis, volts=3)
DefaultVolts == 3

MoveAbsolute(c) ==
    \E axis \in Axes, pos \in Numbers :
        Begin(c, "move_absolute", <<<<axis>>, IntToStr(pos)>>, move_absolute(axis, pos))

MoveRelative(c) ==
    \E axis \in Axes, delta \in Numbers :
        Begin(c, "move_relative", <<<<axis>>, IntToStr(delta)>>, move_relative(axis, delta))

HomeAxis(c) ==
    \E axis \in Axes : Begin(c, "home_axis", <<<<axis>>>>, home_axis(axis))

Stop(c) ==
    \E axis \in Axes \cup {"None"} :
        Begin(c, "stop", IF axis = "None" THEN <<>> ELSE <<<<axis>>>>, stop(axis))

GetPosition(c) ==
    \E axis \in Axes : Begin(c, "get_position", <<<<axis>>>>, get_position(axis))

EnableAxis(c) ==
    \E axis \in Axes : Begin(c, "enable_axis", <<<<axis>>>>, enable_axis(axis))

DisableAxis(c) ==
    \E axis \in Axes : Begin(c, "disable_axis", <<<<axis>>>>, disable_axis(axis))

SetGearing(c) ==
    \E lead \in Axes, follow \in Axes :
        Begin(c, "set_gearing", <<<<lead>>, <<follow>>>>, set_gearing(lead, follow))

SetGearingRatio(c) ==
    \E ratios \in Ratios :
        Begin(c, "set_gearing_ratio",
              [i \in 1..Len(ratios) |-> IntToStr(ratios[i])], set_gearing_ratio(ratios))

JogAxis(c) ==
    \E axis \in Axes, speed \in Numbers :
        Begin(c, "jog_axis", <<<<axis>>, IntToStr(speed)>>, jog_axis(axis, speed))

QueryStatus(c) ==
    \E code \in Codes : Begin(c, "query_status", <<code>>, query_status(code))

ChangeGain(c) ==
    \E axis \in Axes, gain \in Numbers :
        Begin(c, "change_gain", <<<<axis>>, IntToStr(gain)>>, change_gain(axis, gain))

QueryParam(c) ==
    \E code \in Codes : Begin(c, "query_param", <<code>>, query_param(code))

InitializeAxis(c) ==
    \E axis \in Axes :
        Begin(c, "initialize_axis", <<<<axis>>, IntToStr(DefaultVolts)>>,
              initialize_axis(axis, DefaultVolts))

\* the operations of the vocabulary that go through send_command
Vocabulary ==
    {"move_absolute", "move_relative", "home_axis", "stop", "get_position",
     "enable_axis", "disable_axis", "set_gearing", "set_gearing_ratio", "jog_axis",
     "query_status", "change_gain", "query_param", "initialize_axis"}

----------------------------------------------------------------------------
(* The single-threaded session using the vocabulary *)

Init ==
    /\ InitSession
    /\ config \in {ConfigNone, ConfigNoGalil}
    /\ request = <<>>

Next ==
    \/ connect
    \/ disconnect
    \/ MoveAbsolute(Main)
    \/ MoveRelative(Main)
    \/ HomeAxis(Main)
    \/ Stop(Main)
    \/ GetPosition(Main)
    \/ EnableAxis(Main)
    \/ DisableAxis(Main)
    \/ SetGearing(Main)
    \/ SetGearingRatio(Main)
    \/ JogAxis(Main)
    \/ QueryStatus(Main)
    \/ ChangeGain(Main)
    \/ QueryParam(Main)
    \/ InitializeAxis(Main)
    \/ Check(Main)
    \/ SerWrite(Main)
    \/ SerRead(Main)
    \/ Pop(Main)
    \/ ReturnTop(Main)

Spec == Init /\ [][Next]_vars

----------------------------------------------------------------------------
(* The single-threaded session dispatching logical commands with command() *)

\* segments a logical command is made of (one of them empty)
SegPool == { <<>>, <<"a">>, <<"b">>, <<"c">> }

\* the logical commands of 1..MaxSegs segments, joined by ';'
Commands ==
    { Join(segs, ";") : segs \in UNION { [1..n -> SegPool] : n \in 1..MaxSegs } }

\* waittime, in tenths of a second
WaitTimes == {1, 2}

\* a quiet configuration with the short wait, a verbose one with the long wait
CommandConfigs ==
    { ConfigGalil({"waittime", "verbose"},
                  [NoValues EXCEPT !.waittime = w, !.verbose = (w = 2)]) :
        w \in WaitTimes }

Command(c) ==
    Begin(c, "command", <<request>>, command(request) \o <<PReturnTop>>)

InitCommand ==
    /\ InitSession
    /\ config \in CommandConfigs
    /\ request \in Commands

NextCommand ==
    \/ connect
    \/ disconnect
    \/ Command(Main)
    \/ Write(Main)
    \/ Sleep(Main)
    \/ Read(Main)
    \/ Log(Main)
    \/ Const(Main)
    \/ Concat(Main)
    \/ ReturnTop(Main)

SpecCommand == InitCommand /\ [][NextCommand]_vars

----------------------------------------------------------------------------
(* The single-threaded session applying its configuration *)

\* how a configuration may hold each string key: not at all, blank, or with
\* a value
Holding ==
    [confcomm  |-> {"absent", "blank", "value"},
     initcommA |-> {"absent", "blank", "value"},
     initcommB |-> {"absent", "value"},
     initcommC |-> {"absent", "value"},
     initcommD |-> {"blank", "value"},
     indexcomm |-> {"absent", "blank", "value"}]

\* the value each string key has when it is held with a value
Configured ==
    [confcomm  |-> <<" ", "C", "N", " ", "1">>,
     initcommA |-> <<"S", "H", "A">>,
     initcommB |-> <<"S", "H", "B", " ">>,
     initcommC |-> <<"S", "H", "C">>,
     initcommD |-> <<"S", "H", "D">>,
     indexcomm |-> <<"F", "I", "A", " ">>]

StringKeys == DOMAIN Configured

\* maxspeed and the two axis lists
SpeedSettings ==
    { [keys |-> {}, maxspeed |-> 0, linaxis |-> <<>>, angaxis |-> <<>>],
      [keys |-> {"maxspeed", "linaxis", "angaxis"}, maxspeed |-> 500,
       linaxis |-> <<"A", " ", "B">>, angaxis |-> <<"C">>],
      [keys |-> {"maxspeed", "linaxis", "angaxis"}, maxspeed |-> 500,
       linaxis |-> <<"A", " ", "B">>, angaxis |-> <<"C", " ", "D">>],
      [keys |-> {"maxspeed"}, maxspeed |-> 500, linaxis |-> <<>>, angaxis |-> <<>>],
      [keys |-> {"maxspeed", "linaxis", "angaxis"}, maxspeed |-> 0,
       linaxis |-> <<" ", "A">>, angaxis |-> <<" ">>],
      [keys |-> {"linaxis", "angaxis"}, maxspeed |-> 0,
       linaxis |-> <<"A">>, angaxis |-> <<"B">>] }

\* the configuration that holds each string key as `held` says, with `speed`
ConfigOf(held, speed) ==
    ConfigGalil(
        {k \in StringKeys : held[k] # "absent"} \cup speed.keys,
        [k \in GalilKeys |->
            IF k \in StringKeys
            THEN (IF held[k] = "value" THEN Configured[k]
                  ELSE IF held[k] = "blank" THEN <<" ">> ELSE <<>>)
            ELSE IF k \in {"maxspeed", "linaxis", "angaxis"} THEN speed[k]
            ELSE NoValues[k]])

Configurations ==
    { ConfigOf(held, speed) :
        held \in { h \in [StringKeys -> {"absent", "blank", "value"}] :
                      \A k \in StringKeys : h[k] \in Holding[k] },
        speed \in SpeedSettings }
    \cup {ConfigNone, ConfigNoGalil}

CommandConfig(c) == Begin(c, "command_config", <<>>, command_config)

InitConfig ==
    /\ InitSession
    /\ config \in Configurations
    /\ request = <<>>

NextConfig ==
    \/ connect
    \/ disconnect
    \/ CommandConfig(Main)
    \/ Check(Main)
    \/ SerWrite(Main)
    \/ SerRead(Main)
    \/ Pop(Main)
    \/ ReturnTrue(Main)
    \/ RaiseStep(Main)

SpecConfig == InitConfig /\ [][NextConfig]_vars

----------------------------------------------------------------------------
(* Two callers sharing one session *)

InitConc ==
    /\ InitSession
    /\ config = ConfigNone
    /\ request = <<>>

NextConc ==
    \/ connect
    \/ disconnect
    \/ \E c \in Callers :
        \/ GetPosition(c)
        \/ Check(c)
        \/ SerWrite(c)
        \/ SerRead(c)
        \/ ReturnTop(c)

SpecConc == InitConc /\ [][NextConc]_vars

----------------------------------------------------------------------------
(* Reading the recorded events *)

IsWrite(e) == e.op = "write"

IsRead(e) == e.op = "read"

\* the events on the link and the waits between them (logging left out)
IsLinkEvent(e) == e.op \in {"write", "read", "sleep"}

\* the frames written, in order
Frames == SelectSeq(trace, IsWrite)

LinkEvents == SelectSeq(trace, IsLinkEvent)

Ops(events) == [i \in 1..Len(events) |-> events[i].op]

\* the segments a frame of command() carries: its text without the "\n\r"
FrameSegments(frame) ==
    LET text == Decode(frame.data)
    IN  Split(SubSeq(text, 1, Len(text) - 2), ";")

Range(seq) == { seq[i] : i \in 1..Len(seq) }

Distinct(seq) == \A i, j \in 1..Len(seq) : i # j => seq[i] # seq[j]

\* a finished call of method `name` by the caller c
Finished(c, name) == pc[c] = "done" /\ call[c].name = name

----------------------------------------------------------------------------
(* Sending while disconnected *)

\* C1: a call of the axis command vocabulary made while the session has no
\* open connection fails with the not-connected error, and no byte is written
\* to the serial link.
C1_DisconnectedVocabularyFails ==
    \A c \in Callers :
        (pc[c] # "idle" /\ call[c].name \in Vocabulary /\ ~call[c].open) =>
            /\ Frames = <<>>
            /\ pc[c] = "done" => (err[c] = NotConnected /\ result[c] = NoResult)

\* a two-transaction call has failed on a session that was connected and then
\* disconnected or never opened
C1_Witness ==
    /\ Finished(Main, "jog_axis")
    /\ ~call[Main].open
    /\ err[Main] = NotConnected
    /\ Frames = <<>>

----------------------------------------------------------------------------
(* The split of a long command *)

\* a command() call of more than 3 segments that has returned on an open session
SplitDone(c) ==
    /\ Finished(c, "command") /\ call[c].open /\ err[c] = "none"
    /\ Len(Split(request, ";")) > 3

SharedSegments(k) ==
    Range(FrameSegments(Frames[k])) \cap Range(FrameSegments(Frames[k + 1]))

\* C3 as stated: consecutive transactions of a split command have exactly one
\* segment in common, the one at index 1 of the earlier chunk.
C3_OneSegmentShared ==
    \A c \in Callers :
        (SplitDone(c) /\ Distinct(Split(request, ";"))) =>
            \A k \in 1..(Len(Frames) - 1) :
                SharedSegments(k) = {FrameSegments(Frames[k])[2]}

\* C3 amended: consecutive transactions of a split command overlap in two
\* segments: the segments at indices 1 and 2 of the earlier transaction open
\* the later one, and when the segments are pairwise distinct these two are
\* exactly the segments the transactions have in common.
C3_TwoSegmentsShared ==
    \A c \in Callers :
        SplitDone(c) =>
            /\ Len(Frames) > 1
            /\ \A k \in 1..(Len(Frames) - 1) :
                 LET earlier == FrameSegments(Frames[k])
                     later == FrameSegments(Frames[k + 1])
                 IN  /\ Len(earlier) = 3 /\ Len(later) = 3
                     /\ later[1] = earlier[2]
                     /\ later[2] = earlier[3]
                     /\ Distinct(Split(request, ";")) =>
                            SharedSegments(k) = {earlier[2], earlier[3]}

\* a command of four pairwise distinct segments has gone out as two frames
C3_Witness ==
    /\ SplitDone(Main)
    /\ Distinct(Split(request, ";"))
    /\ Len(Frames) = 2
    /\ Cardinality(SharedSegments(1)) = 2

\* C4: a command() call of at most 3 segments on an open session performs one
\* write of the whole command, then one wait of waittime, then one read, and
\* nothing else on the link; a command of 4 segments is split into several
\* writes.
C4_ShortCommandOneTransaction ==
    \A c \in Callers :
        (Finished(c, "command") /\ call[c].open) =>
            /\ err[c] = "none"
            /\ Len(Split(request, ";")) <= 3 =>
                 /\ Ops(LinkEvents) = <<"write", "sleep", "read">>
                 /\ LinkEvents[1].data = Encode(request \o <<"\n", "\r">>)
                 /\ LinkEvents[2].data = <<config.val.waittime>>
            /\ Len(Split(request, ";")) = 4 => Len(Frames) > 1

\* a command of exactly three segments has gone out in one frame
C4_Witness ==
    /\ Finished(Main, "command") /\ call[Main].open
    /\ Len(Split(request, ";")) = 3
    /\ Len(Frames) = 1
    /\ Len(SelectSeq(trace, IsRead)) = 1

----------------------------------------------------------------------------
(* Pacing *)

\* C5: in every transaction of send_command a pacing wait lies between the
\* write and the read.
C5_WaitBetweenWriteAndRead ==
    \A i \in 1..Len(trace) :
        trace[i].op = "read" =>
            /\ i > 2
            /\ trace[i - 1].op = "sleep"
            /\ trace[i - 2].op = "write"

----------------------------------------------------------------------------
(* Serialized dispatch *)

\* C6: the write and the read of one command are never separated by another
\* command's write or read: every write on the link is followed at once by
\* the read of the same caller.
C6_TransactionsDoNotInterleave ==
    \A i \in 1..(Len(trace) - 1) :
        trace[i].op = "write" =>
            /\ trace[i + 1].op = "read"
            /\ trace[i + 1].c = trace[i].c

----------------------------------------------------------------------------
(* Configuration application *)

\* a configuration with a 'galil' section is loaded
Loaded == config.kind = "dict" /\ config.galil

\* command_config called by c on an open session with a loaded configuration
Applying(c) ==
    /\ pc[c] # "idle" /\ call[c].name = "command_config"
    /\ call[c].open /\ Loaded

\* what a string key contributes to the procedure: its value without the
\* surrounding whitespace when the key is present and not blank
StepOf(key) ==
    IF Has(key) /\ Strip(config.val[key]) # <<>>
    THEN <<Strip(config.val[key])>>
    ELSE <<>>

StringSteps ==
    StepOf("confcomm") \o StepOf("initcommA") \o StepOf("initcommB")
    \o StepOf("initcommC") \o StepOf("initcommD") \o StepOf("indexcomm")

\* the axes of linaxis, then those of angaxis
ListedAxes == SplitWS(Get("linaxis", <<>>)) \o SplitWS(Get("angaxis", <<>>))

\* SP<axis>=<maxspeed> for every listed axis, joined by ';'
SpeedCommand ==
    Join([i \in 1..Len(ListedAxes) |->
              <<"S", "P">> \o ListedAxes[i] \o <<"=">> \o IntToStr(config.val.maxspeed)],
         ";")

\* the frame send_command writes for a command
FrameOf(text) == Encode(text \o <<"\r">>)

\* the frames of a list of commands
RECURSIVE FramesOf(_)
FramesOf(texts) ==
    IF texts = <<>> THEN <<>> ELSE <<FrameOf(Head(texts))>> \o FramesOf(Tail(texts))

RECURSIVE DataOfEvents(_)
DataOfEvents(events) ==
    IF events = <<>> THEN <<>> ELSE <<Head(events).data>> \o DataOfEvents(Tail(events))

FrameData == DataOfEvents(Frames)

IsPrefix(s, t) == Len(s) <= Len(t) /\ s = SubSeq(t, 1, Len(s))

\* the steps as C7 states them: the speed step whenever maxspeed is present
StepsAsStated ==
    StringSteps \o (IF Has("maxspeed") THEN <<SpeedCommand>> ELSE <<>>)

\* the steps with the speed step only when some axis is listed
StepsWithListedAxes ==
    StringSteps
    \o (IF Has("maxspeed") /\ ListedAxes # <<>> THEN <<SpeedCommand>> ELSE <<>>)

C8_SpeedCommandJoined ==
    \A c \in Callers :
        (Applying(c) /\ Has("maxspeed")) =>
            /\ \A i \in 1..Len(Frames) :
                 i > Len(StringSteps) =>
                     /\ i = Len(StringSteps) + 1
                     /\ ListedAxes # <<>>
                     /\ Frames[i].data = FrameOf(SpeedCommand)
            /\ (pc[c] = "done" /\ err[c] = "none") =>
                 Len(Frames) = Len(StringSteps) + (IF ListedAxes = <<>> THEN 0 ELSE 1)

\* linaxis "A B", angaxis "C", maxspeed 500 has gone out as SPA=500;SPB=500;SPC=500
C8_Witness ==
    /\ Applying(Main) /\ pc[Main] = "done" /\ err[Main] = "none"
    /\ Has("maxspeed") /\ config.val.maxspeed = 500
    /\ ListedAxes = << <<"A">>, <<"B">>, <<"C">> >>
    /\ Frames[Len(Frames)].data =
           Encode(<<"S", "P", "A", "=", "5", "0", "0", ";",
                    "S", "P", "B", "=", "5", "0", "0", ";",
                    "S", "P", "C", "=", "5", "0", "0", "\r">>)

\* the segments of a frame of send_command: its text without the "\r"
SentSegments(frame) ==
    LET text == Decode(frame.data)
    IN  Split(SubSeq(text, 1, Len(text) - 1), ";")

\* C9: the speed command of more than 3 axes goes out as more than one frame,
\* none of more than 3 segments; that of exactly 3 axes goes out as one frame.
C9_SpeedCommandSplit ==
    \A c \in Callers :
        (Applying(c) /\ pc[c] = "done" /\ err[c] = "none" /\ Has("maxspeed")) =>
            LET speedFrames == SubSeq(Frames, Len(StringSteps) + 1, Len(Frames))
            IN  /\ Len(ListedAxes) > 3 =>
                     /\ Len(speedFrames) > 1
                     /\ \A i \in 1..Len(speedFrames) :
                            Len(SentSegments(speedFrames[i])) <= 3
                /\ Len(ListedAxes) = 3 => Len(speedFrames) = 1

\* the texts the reads of the call brought, in order
ResponseTexts ==
    LET reads == SelectSeq(trace, IsRead)
    IN  [i \in 1..Len(reads) |-> Strip(DecodeIgnore(reads[i].data))]

RECURSIVE Flatten(_)
Flatten(texts) == IF texts = <<>> THEN <<>> ELSE Head(texts) \o Flatten(Tail(texts))

\* C10: whatever text the responses hold, command_config sends every step,
\* raises nothing, and hands the response texts to its caller.
C10_ResponsesPropagated ==
    \A c \in Callers :
        (Applying(c) /\ pc[c] = "done"
         /\ \A i \in 1..Len(trace) : IsRead(trace[i]) => Decodable(trace[i].data)) =>
            /\ err[c] = "none"
            /\ Len(Frames) = Len(StepsWithListedAxes)
            /\ Frames # <<>> =>
                 /\ result[c].kind = "text"
                 /\ result[c].text = Flatten(ResponseTexts)

----------------------------------------------------------------------------
(* Undecodable responses *)

\* the bytes the last read of the record brought
LastRead ==
    LET reads == SelectSeq(trace, IsRead) IN reads[Len(reads)].data

\* C11: a response holding undecodable bytes does not make a vocabulary call
\* fail: a call on an open session that has read its response returns the
\* decodable remainder of the bytes, trimmed.
C11_UndecodableBytesDiscarded ==
    \A c \in Callers :
        (pc[c] = "done" /\ call[c].name \in Vocabulary /\ call[c].open
         /\ SelectSeq(trace, IsRead) # <<>>) =>
            /\ err[c] = "none"
            /\ result[c] = [kind |-> "text", text |-> Strip(DecodeIgnore(LastRead))]

----------------------------------------------------------------------------
(* load_config() (commands.py) and the operations that need a configuration *)

\* RuntimeError("Config not loaded. Run load_config() first."), which
\* initialize_axis raises when the session has no attribute 'config'
ConfigNotLoaded == "RuntimeError: Config not loaded."

\* load_config() making sure of the connection before anything else
load_config_checks_first(cfg) ==
    LET galil_cfg == IF cfg.galil THEN cfg.keys ELSE {}
        confcomm == Strip(IF "confcomm" \in galil_cfg THEN cfg.val.confcomm ELSE <<>>)
        init(axis) ==
            LET key == InitKey(axis)
            IN  IF key \in galil_cfg /\ Strip(cfg.val[key]) # <<>>
                THEN Discarded(send_command(Strip(cfg.val[key])))
                ELSE <<>>
    IN  <<PCheck>>
        \o (IF confcomm # <<>> THEN Discarded(send_command(confcomm)) ELSE <<>>)
        \o init("A") \o init("B") \o init("C") \o init("D")
        \o <<PReturnTrue>>

\* the commands load_config sends for the mapping cfg that toml.load returned:
\* galil_cfg = self.config.get('galil', {}), then confcomm and the init
\* command of each axis, stripped, when not blank; maxspeed is only printed
load_config(cfg) ==
    LET galil_cfg == IF cfg.galil THEN cfg.keys ELSE {}
        confcomm == Strip(IF "confcomm" \in galil_cfg THEN cfg.val.confcomm ELSE <<>>)
        init(axis) ==
            LET key == InitKey(axis)
            IN  IF key \in galil_cfg /\ Strip(cfg.val[key]) # <<>>
                THEN Discarded(send_command(Strip(cfg.val[key])))
                ELSE <<>>
    IN  (IF confcomm # <<>> THEN Discarded(send_command(confcomm)) ELSE <<>>)
        \o init("A") \o init("B") \o init("C") \o init("D")
        \o <<PReturnTrue>>

\* how the files that load_config reads hold the string keys
FileHoldings ==
    { [confcomm |-> "absent", initcommA |-> "absent", initcommB |-> "absent",
       initcommC |-> "absent", initcommD |-> "absent", indexcomm |-> "absent"],
      [confcomm |-> "blank", initcommA |-> "absent", initcommB |-> "blank",
       initcommC |-> "absent", initcommD |-> "absent", indexcomm |-> "value"],
      [confcomm |-> "value", initcommA |-> "absent", initcommB |-> "absent",
       initcommC |-> "absent", initcommD |-> "absent", indexcomm |-> "absent"],
      [confcomm |-> "blank", initcommA |-> "absent", initcommB |-> "value",
       initcommC |-> "absent", initcommD |-> "value", indexcomm |-> "absent"] }

\* the contents of the files: with and without maxspeed and axis lists
FileSpeeds ==
    { sp \in SpeedSettings : sp.keys = {} \/ (sp.maxspeed = 500 /\ sp.angaxis = <<"C">>) }

\* what toml.load(path) may return
Files ==
    { ConfigOf(held, speed) : held \in FileHoldings, speed \in FileSpeeds }
    \cup {ConfigNoGalil}

\* load_config(path): toml.load raises when there is no file at path and
\* the configuration stays; otherwise the configuration is replaced at once
\* and the commands follow
LoadConfig(c) ==
    \/ /\ Begin(c, "load_config", <<>>, <<PRaise("FileNotFoundError")>>)
    \/ \E cfg \in Files :
        /\ pc[c] # "running"
        /\ Quiet(c) \/ Len(trace) + LinkSteps(load_config(cfg)) <= MaxTrace
        /\ config' = cfg
        /\ pc' = [pc EXCEPT ![c] = "running"]
        /\ call' = [call EXCEPT ![c] =
                       [name |-> "load_config", args |-> <<cfg>>, open |-> ser = "open"]]
        /\ todo' = [todo EXCEPT ![c] = load_config(cfg)]
        /\ vals' = [vals EXCEPT ![c] = <<>>]
        /\ result' = [result EXCEPT ![c] = NoResult]
        /\ err' = [err EXCEPT ![c] = "none"]
        /\ trace' = IF Quiet(c) THEN <<>> ELSE trace
        /\ UNCHANGED <<port, ser, serials, request, script>>

InitLoad ==
    /\ InitSession
    /\ config \in {ConfigNone, ConfigNoGalil}
    /\ request = <<>>

NextLoad ==
    \/ connect
    \/ disconnect
    \/ LoadConfig(Main)
    \/ CommandConfig(Main)
    \/ InitializeAxis(Main)
    \/ Check(Main)
    \/ SerWrite(Main)
    \/ SerRead(Main)
    \/ Pop(Main)
    \/ ReturnTop(Main)
    \/ ReturnTrue(Main)
    \/ RaiseStep(Main)

SpecLoad == InitLoad /\ [][NextLoad]_vars

\* C12: command_config and initialize_axis called on a session constructed
\* with config=None, load_config never having replaced it, fail with the
\* configuration-missing error and write nothing.
C12_MissingConfigurationFails ==
    \A c \in Callers :
        (pc[c] # "idle" /\ call[c].name \in {"command_config", "initialize_axis"}
         /\ config.kind = "None") =>
            /\ Frames = <<>>
            /\ pc[c] = "done" => err[c] \in {NoConfigLoaded, ConfigNotLoaded}

----------------------------------------------------------------------------
(* The session of galilstage.py: raw commands, jog and begin of motion *)

\* an argument left out (None) is the empty tuple, a supplied one <<v>>
Omitted == <<>>

\* the text of an argument as an f-string formats it when it is supplied
AxisText(axis) == IF axis = Omitted THEN <<>> ELSE axis[1]

ValueText(value) == IF value = Omitted THEN <<>> ELSE IntToStr(value[1])

\* command_rawsignal(self, command, axis=None, value=None): value is an int
command_rawsignal(verb, axis, value) ==
    LET axisText == AxisText(axis)
        valueText == ValueText(value)
        cmd == IF axis # Omitted /\ value # Omitted
               THEN verb \o axisText \o <<" ", "=", " ">> \o valueText
               ELSE IF verb # <<>> /\ value # Omitted /\ value[1] # 0
               THEN verb \o <<" ", "=", " ">> \o valueText
               ELSE verb
    IN  send_command(cmd) \o <<PReturnTop>>

\* jog_axis(self, axis, speed) of galilstage.py, read without the unmatched
\* ')' that ends its line 134: the jog speed is set and nothing else is sent
stage_jog_axis(axis, speed) ==
    send_command(<<"J", "G", axis, "=">> \o IntToStr(speed)) \o <<PReturnTop>>

\* begin_axis_motion(self, axis)
begin_axis_motion(axis) == send_command(<<"B", "G", axis>>) \o <<PReturnTop>>

Verbs == { <<"S", "H">>, <<"D", "P">> }

RawAxes == {Omitted} \cup { <<<<a>>>> : a \in Axes }

RawValues == {Omitted} \cup { <<n>> : n \in Numbers }

CommandRawsignal(c) ==
    \E verb \in Verbs, axis \in RawAxes, value \in RawValues :
        Begin(c, "command_rawsignal", <<verb, AxisText(axis), ValueText(value)>>,
              command_rawsignal(verb, axis, value))

StageJogAxis(c) ==
    \E axis \in Axes, speed \in Numbers :
        Begin(c, "stage_jog_axis", <<<<axis>>, IntToStr(speed)>>, stage_jog_axis(axis, speed))

BeginAxisMotion(c) ==
    \E axis \in Axes : Begin(c, "begin_axis_motion", <<<<axis>>>>, begin_axis_motion(axis))

InitStage ==
    /\ InitSession
    /\ config = ConfigGalil({}, NoValues)
    /\ request = <<>>

NextStage ==
    \/ connect
    \/ disconnect
    \/ CommandRawsignal(Main)
    \/ StageJogAxis(Main)
    \/ BeginAxisMotion(Main)
    \/ Check(Main)
    \/ SerWrite(Main)
    \/ SerRead(Main)
    \/ ReturnTop(Main)

SpecStage == InitStage /\ [][NextStage]_vars

\* C13: command_rawsignal on an open session writes '<verb><axis>' when only
\* the axis is supplied, '<verb><axis> = <value>' when both are,
\* '<verb> = <value>' when only the value is, and '<verb>' when neither is,
\* a value of 0 included.
C13_RawSignalFrames ==
    \A c \in Callers :
        (pc[c] # "idle" /\ call[c].name = "command_rawsignal" /\ Frames # <<>>) =>
            LET verb == call[c].args[1]
                axis == call[c].args[2]
                value == call[c].args[3]
            IN  Frames[1].data =
                    FrameOf(verb \o axis
                            \o (IF value # <<>> THEN <<" ", "=", " ">> \o value ELSE <<>>))

----------------------------------------------------------------------------
(* Jog *)

\* C14: jog_axis(axis, speed) on an open session performs exactly two
\* transactions, 'JG<axis>=<speed>' (write, read) and then 'BG<axis>' (write,
\* read), and returns the response to the second.
C14_JogTwoTransactions ==
    \A c \in Callers :
        (Finished(c, "jog_axis") /\ call[c].open) =>
            LET axis == call[c].args[1]
                speed == call[c].args[2]
            IN  /\ Ops(trace) = <<"write", "read", "write", "read">>
                /\ trace[1].data = FrameOf(<<"J", "G">> \o axis \o <<"=">> \o speed)
                /\ trace[3].data = FrameOf(<<"B", "G">> \o axis)
                /\ err[c] = "none"
                /\ result[c] = [kind |-> "text", text |-> Strip(DecodeIgnore(trace[4].data))]

----------------------------------------------------------------------------
(* Connection lifecycle *)

\* C15: disconnect() never fails and after it the session holds no handle,
\* whether the session was never connected, is connected, or was just
\* disconnected (a second disconnect changes nothing); no port is left open
\* and close() is never called a second time on a handle.
C15_DisconnectIdempotent ==
    /\ [][disconnect =>
            /\ ser' = "None"
            /\ serials' = [open |-> 0, closes |-> 0]
            /\ ser = "None" => UNCHANGED vars]_vars
    /\ [](serials.closes = 0)
    /\ []((\A c \in Callers : pc[c] # "running") => ENABLED disconnect)

\* a session that served a call while connected holds no handle any more
C15_Witness ==
    /\ Finished(Main, "get_position") /\ call[Main].open /\ err[Main] = "none"
    /\ ser = "None"
    /\ serials.open = 0

\* C16: connect() on a session whose connection is open changes nothing: no
\* new Serial is constructed and the handle stays; at any time at most one
\* port is open, and it is the one the session refers to.
C16_ConnectWhenOpenIsNoOp ==
    /\ [][(ser = "open" /\ connect) => UNCHANGED vars]_vars
    /\ [](serials.open = IF ser = "open" THEN 1 ELSE 0)

\* a session that served a call while connected is still connected, with
\* its one port open
C16_Witness ==
    /\ Finished(Main, "get_position") /\ call[Main].open /\ err[Main] = "none"
    /\ ser = "open"
    /\ serials.open = 1

----------------------------------------------------------------------------
(* The value of a split command *)

\* C17: the text a split command returns is the responses of its
\* transactions, in the order the transactions were written, joined with
\* nothing between, before or after them.
C17_SplitReturnsAllResponses ==
    \A c \in Callers :
        SplitDone(c) =>
            /\ Len(ResponseTexts) = Len(Frames)
            /\ result[c] = [kind |-> "text", text |-> Flatten(ResponseTexts)]

\* a split command has returned a fault report followed by an acceptance
C17_Witness ==
    /\ SplitDone(Main)
    /\ ResponseTexts = << <<"?">>, <<":">> >>
    /\ result[Main].text = <<"?", ":">>

----------------------------------------------------------------------------
(* The transactions of a split command *)

\* the link events of n transactions of command(): write, wait w, read, and
\* between two transactions a wait of 3 w
SplitEvents(n, w) ==
    [i \in 1..(4 * n - 1) |->
        CASE i % 4 = 1 -> <<"write", <<>>>>
          [] i % 4 = 2 -> <<"sleep", <<w>>>>
          [] i % 4 = 3 -> <<"read", <<>>>>
          [] OTHER     -> <<"sleep", <<3 * w>>>>]

\* C18: a command() call of N > 3 segments on an open session ends after a
\* bounded number of steps having made exactly N-2 transactions, the k-th
\* carrying the segments k, k+1, k+2 of the command; each transaction is a
\* write, a wait of waittime and a read, and a wait of 3 x waittime lies
\* between the read of a transaction and the write of the next.
C18_SplitTransactions ==
    \A c \in Callers :
        LET segs == Split(request, ";")
            N == Len(segs)
        IN  /\ (pc[c] = "running" /\ call[c].name = "command" /\ N > 3) =>
                 Len(todo[c]) <= 6 * N - 13
            /\ SplitDone(c) =>
                 LET expected == SplitEvents(N - 2, config.val.waittime)
                 IN  /\ Len(Frames) = N - 2
                     /\ \A k \in 1..(N - 2) :
                            FrameSegments(Frames[k]) = SubSeq(segs, k, k + 2)
                     /\ Len(LinkEvents) = Len(expected)
                     /\ \A i \in 1..Len(expected) :
                            /\ LinkEvents[i].op = expected[i][1]
                            /\ LinkEvents[i].op = "sleep" =>
                                   LinkEvents[i].data = expected[i][2]

\* the longest command has gone out in all its transactions, with the long
\* wait between them
C18_Witness ==
    /\ SplitDone(Main)
    /\ Len(Split(request, ";")) = MaxSegs
    /\ Len(Frames) = MaxSegs - 2
    /\ \E i \in 1..Len(LinkEvents) :
            /\ LinkEvents[i].op = "sleep"
            /\ LinkEvents[i].data = <<3 * config.val.waittime>>

----------------------------------------------------------------------------
(* Loading a configuration on a disconnected session *)

\* the loaded configuration has a command for load_config to send
HasStartupCommand ==
    StepOf("confcomm") \o StepOf("initcommA") \o StepOf("initcommB")
    \o StepOf("initcommC") \o StepOf("initcommD") # <<>>

\* load_config called by c, with the file found, on a session with no open
\* connection
LoadingDisconnected(c) ==
    /\ pc[c] # "idle" /\ call[c].name = "load_config" /\ call[c].args # <<>>
    /\ ~call[c].open

\* C20: load_config on a disconnected session makes the loaded configuration
\* the session's configuration at once and writes nothing; it fails with the
\* not-connected error, the new configuration staying, when confcomm or some
\* initcomm<axis> is not blank, and returns True when all are absent or
\* blank.
C20_LoadReplacesConfigFirst ==
    \A c \in Callers :
        LoadingDisconnected(c) =>
            /\ config = call[c].args[1]
            /\ Frames = <<>>
            /\ pc[c] = "done" =>
                 IF HasStartupCommand
                 THEN err[c] = NotConnected /\ result[c] = NoResult
                 ELSE err[c] = "none" /\ result[c] = [kind |-> "bool", text |-> <<>>]

\* load_config has failed on a disconnected session and the configuration
\* with the command it could not send is the session's
C20_Witness ==
    /\ LoadingDisconnected(Main) /\ pc[Main] = "done"
    /\ err[Main] = NotConnected
    /\ config.galil /\ HasStartupCommand
    /\ config = call[Main].args[1]

----------------------------------------------------------------------------
(* The safety-monitoring script *)

\* str.strip(chars): the characters of chars are removed from both ends
RECURSIVE LStripChars(_, _)
LStripChars(s, chars) ==
    IF s # <<>> /\ Head(s) \in chars THEN LStripChars(Tail(s), chars) ELSE s

RECURSIVE RStripChars(_, _)
RStripChars(s, chars) ==
    IF s # <<>> /\ s[Len(s)] \in chars
    THEN RStripChars(SubSeq(s, 1, Len(s) - 1), chars)
    ELSE s

StripChars(s, chars) == RStripChars(LStripChars(s, chars), chars)

\* the characters of ': \r\n'
AnswerFraming == {":", " ", "\r", "\n"}

IsDigit(ch) == \E d \in 0..9 : Digit(d) = ch

DigitValue(ch) == CHOOSE d \in 0..9 : Digit(d) = ch

\* the text without its sign
Unsigned(t) == IF t # <<>> /\ Head(t) \in {"+", "-"} THEN Tail(t) ELSE t

\* float(t) accepts an optional sign and decimal digits with at most one "."
\* among them (the forms with an exponent, "inf" and "nan" do not occur in
\* what the link brings here); anything else is a ValueError
IsFloat(t) ==
    LET u == Unsigned(Strip(t)) IN
    /\ \A i \in 1..Len(u) : IsDigit(u[i]) \/ u[i] = "."
    /\ Cardinality({ i \in 1..Len(u) : u[i] = "." }) <= 1
    /\ \E i \in 1..Len(u) : IsDigit(u[i])

\* the number a run of digits stands for
RECURSIVE NatOf(_)
NatOf(ds) ==
    IF ds = <<>> THEN 0
    ELSE 10 * NatOf(SubSeq(ds, 1, Len(ds) - 1)) + DigitValue(ds[Len(ds)])

RECURSIVE PowerOfTen(_)
PowerOfTen(k) == IF k = 0 THEN 1 ELSE 10 * PowerOfTen(k - 1)

\* float(t) as the pair <<numerator, denominator>>, the zeros that end the
\* decimals left out
FloatOf(t) ==
    LET s0 == Strip(t)
        u == Unsigned(s0)
        whole == IF \E i \in 1..Len(u) : u[i] = "."
                 THEN SubSeq(u, 1, (CHOOSE i \in 1..Len(u) : u[i] = ".") - 1)
                 ELSE u
        decimals == IF \E i \in 1..Len(u) : u[i] = "."
                    THEN RStripChars(SubSeq(u, (CHOOSE i \in 1..Len(u) : u[i] = ".") + 1,
                                            Len(u)), {"0"})
                    ELSE <<>>
        sign == IF s0 # <<>> /\ Head(s0) = "-" THEN -1 ELSE 1
    IN  <<sign * NatOf(whole \o decimals), PowerOfTen(Len(decimals))>>

\* a float equals the integer n
FloatIs(x, n) == x[1] = n * x[2]

\* np.abs(x - y) >= n
ApartBy(x, y, n) ==
    LET d == x[1] * y[2] - y[1] * x[2]
    IN  (IF d < 0 THEN 0 - d ELSE d) >= n * x[2] * y[2]

\* the names `stage' and `np' are not bound in safety_logic.py: the script
\* runs where `stage' is a GalilStage of commands.py or of galilstage.py
\* and `np' is numpy
Stages == {"commands", "galilstage"}

\* the lines of the monitoring loop
LoopLines == {19, 20, 21, 22, 25, 27, 31}

ScriptQuery(line) ==
    CASE line \in {1, 9, 25, 27} -> <<"_", "G", "R", "B">>
      [] line = 5 -> <<"_", "T", "P", "A">>
      [] line = 6 -> <<"_", "T", "P", "B">>
      [] line = 19 -> <<"_", "T", "V", "A">>
      [] line = 20 -> <<"_", "T", "T", "A">>
      [] line = 21 -> <<"_", "T", "T", "B">>
      [] line = 22 -> <<"_", "T", "V", "B">>

\* the method a line of the script calls
ScriptMethod(line) ==
    CASE line = 14 -> "jog_axis"
      [] line = 15 -> "begin_axis_motion"
      [] line = 31 -> "stop"
      [] OTHER -> "query_status"

\* what the call of a line executes: commands.py's GalilStage has no
\* begin_axis_motion, and its jog_axis sends BG after JG
ScriptPlan(sc) ==
    CASE sc.line = 14 ->
            IF sc.stage = "commands"
            THEN jog_axis("A", -15000)
            ELSE stage_jog_axis("A", -15000)
      [] sc.line = 15 ->
            IF sc.stage = "commands"
            THEN <<PRaise("AttributeError")>>
            ELSE begin_axis_motion("A")
      [] sc.line = 31 -> stop("A")
      [] OTHER -> query_status(ScriptQuery(sc.line))

\* the script makes the call of the line it is at
ScriptCall ==
    /\ script.status = "running" /\ pc[Main] = "idle"
    /\ Begin(Main, ScriptMethod(script.line),
             IF script.line \in {14, 15, 31} THEN <<<<"A">>>> ELSE <<ScriptQuery(script.line)>>,
             ScriptPlan(script))

\* the frame has been written during the call that has just ended
Wrote(text) ==
    \E i \in 1..Len(trace) : trace[i].op = "write" /\ trace[i].data = Encode(text)

\* the text the call has returned, the answer's framing removed
Answer == StripChars(result[Main].text, AnswerFraming)

\* the lines where the script converts what it has read with float(): the
\* answer of line 1 on line 2, of line 9 on line 10, of lines 19 and 22 on
\* lines 23 and 24, of line 25 on line 26
ConvertsAt(sc) ==
    CASE sc.line \in {1, 9, 25} -> <<Answer>>
      [] sc.line = 22 -> <<StripChars(sc.velAText, AnswerFraming), Answer>>
      [] OTHER -> <<>>

\* the script as the call of its line has left it, when no exception ends it
ScriptAfter(sc) ==
    LET seen == [sc EXCEPT
                   !.started = @ \/ Wrote(<<"B", "G", "A", "\r">>),
                   !.stopped = @ \/ Wrote(<<"S", "T", " ", "A", "\r">>)]
    IN  CASE sc.line = 1 -> [seen EXCEPT !.grb = FloatOf(Answer), !.line = 5]
          [] sc.line = 5 -> [seen EXCEPT !.line = 6]
          [] sc.line = 6 -> [seen EXCEPT !.line = 9]
          [] sc.line = 9 ->
                [seen EXCEPT !.grb = FloatOf(Answer),
                             !.ratioSeen = @ \/ FloatIs(FloatOf(Answer), -1),
                             !.line = IF FloatIs(FloatOf(Answer), -1) THEN 14 ELSE 19]
          [] sc.line = 14 -> [seen EXCEPT !.line = 15]
          [] sc.line = 15 -> [seen EXCEPT !.line = 19]
          [] sc.line = 19 -> [seen EXCEPT !.velAText = result[Main].text, !.line = 20]
          [] sc.line = 20 -> [seen EXCEPT !.line = 21]
          [] sc.line = 21 -> [seen EXCEPT !.line = 22]
          [] sc.line = 22 ->
                [seen EXCEPT !.velA = FloatOf(StripChars(sc.velAText, AnswerFraming)),
                             !.velB = FloatOf(Answer),
                             !.line = 25]
          [] sc.line = 25 -> [seen EXCEPT !.grb = FloatOf(Answer), !.line = 27]
          [] sc.line = 27 ->
                [seen EXCEPT !.line = IF ApartBy(sc.velA, sc.velB, 1000) \/ ~FloatIs(sc.grb, -1)
                                      THEN 31 ELSE 19]
          [] sc.line = 31 -> [seen EXCEPT !.status = "ended"]

\* the call of the script's line has ended: an exception, of the call or of
\* float(), ends the script where it is; otherwise the script goes on
ScriptStep ==
    /\ script.status = "running" /\ pc[Main] = "done"
    /\ pc' = [pc EXCEPT ![Main] = "idle"]
    /\ script' =
         IF err[Main] # "none"
         THEN [script EXCEPT !.status = "failed",
                             !.started = @ \/ Wrote(<<"B", "G", "A", "\r">>),
                             !.stopped = @ \/ Wrote(<<"S", "T", " ", "A", "\r">>)]
         ELSE IF \E i \in 1..Len(ConvertsAt(script)) : ~IsFloat(ConvertsAt(script)[i])
         THEN [script EXCEPT !.status = "failed"]
         ELSE ScriptAfter(script)
    /\ UNCHANGED <<port, ser, serials, config, request, call, todo, vals, result, err, trace>>

\* the script starts on a stage that has been constructed and, or not,
\* connected
InitSafety ==
    /\ script \in { [NoScript EXCEPT !.status = "running", !.stage = st, !.line = 1] :
                      st \in Stages }
    /\ port = DefaultPort
    /\ ser \in {"None", "open"}
    /\ serials = [open |-> IF ser = "open" THEN 1 ELSE 0, closes |-> 0]
    /\ config = ConfigGalil({}, NoValues)
    /\ request = <<>>
    /\ pc = [c \in Callers |-> "idle"]
    /\ call = [c \in Callers |-> NoCall]
    /\ todo = [c \in Callers |-> <<>>]
    /\ vals = [c \in Callers |-> <<>>]
    /\ result = [c \in Callers |-> NoResult]
    /\ err = [c \in Callers |-> "none"]
    /\ trace = <<>>

NextSafety ==
    \/ ScriptCall
    \/ ScriptStep
    \/ Check(Main)
    \/ SerWrite(Main)
    \/ SerRead(Main)
    \/ Pop(Main)
    \/ ReturnTop(Main)
    \/ RaiseStep(Main)

SpecSafety == InitSafety /\ [][NextSafety]_vars

\* the monitoring loop is over
LoopOver == script.status # "running" /\ script.line \in LoopLines

\* C19: in the safety-monitoring script, motion of axis A is started only
\* after a _GRB query returned -1; the monitoring loop ends in the first
\* iteration in which |velA - velB| >= 1000 or the gearing ratio read in it
\* differs from -1, 'ST A' being sent before it ends: the loop never exits
\* without having sent a stop for A and never sends a stop while both
\* conditions are false.
C19_LoopStopsBeforeExit ==
    /\ script.started => script.ratioSeen
    /\ LoopOver => script.stopped
    /\ script.stopped =>
          ApartBy(script.velA, script.velB, 1000) \/ ~FloatIs(script.grb, -1)

====
